---- MODULE Spec2Model ----
(***************************************************************************)
(* Model of recipe_interface_features.py: a Streamlit meal planner.        *)
(*                                                                         *)
(* Streamlit re-executes the whole script once per user interaction; at    *)
(* most one button (or the form's submit button) is "clicked" in a run.    *)
(* One action of the model is one such run.  st.session_state is the       *)
(* state that survives between runs; module-level names (title, messages,  *)
(* response, ...) are bound afresh in every run.                           *)
(*                                                                         *)
(* A text is a sequence of one-character strings, so that splitlines and   *)
(* strip are computed and not assumed.  Fixed literals of the script are   *)
(* kept as one-element texts holding the literal.                          *)
(***************************************************************************)
EXTENDS Integers, Sequences, FiniteSets, TLC

VARIABLES
    messages,       \* st.session_state.messages: the stored conversation
    latest_recipe,  \* st.session_state.latest_recipe
    latest_prompt,  \* st.session_state.latest_prompt
    history,        \* st.session_state.history: titles
    saved,          \* st.session_state.saved: {title, content} records
    cache,          \* st.cache_data store of get_meal_suggestions
    remoteCalls,    \* number of requests.post invocations made so far
    runs,           \* number of script runs triggered by a button so far
    run,            \* what the last run did (observation of the run)
    callLog,        \* every (conversation, text) a call has returned so far
    genLog,         \* replies of the successful Generate/Regenerate calls
    calls,          \* number of get_meal_suggestions calls made so far
    ingredient_to_sub,  \* st.session_state.ingredient_to_sub
    phase, content, title, titleOut, pdf, safe   \* pure-function harness

session == <<messages, latest_recipe, latest_prompt, history, saved>>
harness == <<phase, content, title, titleOut, pdf, safe>>
vars == <<messages, latest_recipe, latest_prompt, history, saved, cache,
          remoteCalls, runs, run, callLog, genLog, calls, ingredient_to_sub,
          phase, content, title, titleOut, pdf, safe>>

----------------------------------------------------------------------------
(* Bounds *)

MaxRuns == 4        \* button-triggered script runs explored
MaxLen == 5         \* longest reply text given to the title extraction
MaxContent == 6     \* longest content text given to create_pdf

----------------------------------------------------------------------------
(* Text helpers: Python str methods *)

\* characters str.strip() with no argument removes (those of the alphabets used)
Whitespace == {" ", "\t", "\n"}

IsPrefix(s, t) == Len(s) <= Len(t) /\ SubSeq(t, 1, Len(s)) = s

RECURSIVE LStrip(_, _)
LStrip(s, chars) ==
    IF s # <<>> /\ Head(s) \in chars THEN LStrip(Tail(s), chars) ELSE s

RECURSIVE RStrip(_, _)
RStrip(s, chars) ==
    IF s # <<>> /\ s[Len(s)] \in chars
    THEN RStrip(SubSeq(s, 1, Len(s) - 1), chars) ELSE s

\* str.strip(chars): removes the characters of chars from BOTH ends
Strip(s, chars) == RStrip(LStrip(s, chars), chars)

RECURSIVE SplitAcc(_, _, _)
SplitAcc(s, cur, acc) ==
    IF s = <<>> THEN (IF cur = <<>> THEN acc ELSE Append(acc, cur))
    ELSE IF Head(s) = "\n" THEN SplitAcc(Tail(s), <<>>, Append(acc, cur))
    ELSE SplitAcc(Tail(s), Append(cur, Head(s)), acc)

\* str.splitlines(): no empty last line after a final line break
SplitLines(s) == SplitAcc(s, <<>>, <<>>)

StartsWith(s, p) == IsPrefix(p, s)

----------------------------------------------------------------------------
(* Title extraction *)

UntitledRecipe == <<"Untitled Recipe">>

NonBlank(line) == Strip(line, Whitespace) # <<>>

\* variant: lstrip('# ') in place of strip('# ')
ExtractTitleLeading(response) ==
    LET lines == SelectSeq(SplitLines(response), NonBlank)
    IN  IF lines = <<>> THEN UntitledRecipe
        ELSE Strip(LStrip(lines[1], {"#", " "}), Whitespace)

\* next((line.strip('# ').strip() for line in response.splitlines()
\*       if line.strip()), "Untitled Recipe")
ExtractTitle(response) ==
    LET lines == SelectSeq(SplitLines(response), NonBlank)
    IN  IF lines = <<>> THEN UntitledRecipe
        ELSE Strip(Strip(lines[1], {"#", " "}), Whitespace)

----------------------------------------------------------------------------
(* PDF creation *)

\* a character str.encode("latin-1", "ignore") drops (U+20AC, the euro sign)
Euro == "U+20AC"

NotLatin1 == {Euro}

Representable(c) == c \notin NotLatin1

\* variant: errors="replace" in place of "ignore"
Latin1Replace(s) ==
    [i \in 1..Len(s) |-> IF Representable(s[i]) THEN s[i] ELSE "?"]

\* s.encode("latin-1", "ignore").decode("latin-1")
Latin1(s) == SelectSeq(s, Representable)

\* the FPDF calls, in call order; set_font is folded into the call it styles
Cell(style, size, h, text) ==
    [op |-> "cell", style |-> style, size |-> size, h |-> h, text |-> text]
MultiCell(style, size, h, text) ==
    [op |-> "multi_cell", style |-> style, size |-> size, h |-> h, text |-> text]
Ln(h) == [op |-> "ln", style |-> "", size |-> 0, h |-> h, text |-> <<>>]

\* variant: the line is classified without being stripped first
LineBlockRaw(line) ==
    IF Strip(line, Whitespace) = <<>> THEN Ln(2)
    ELSE IF StartsWith(line, <<"#", " ">>)
    THEN Cell("B", 16, 10, Strip(SubSeq(line, 3, Len(line)), Whitespace))
    ELSE IF StartsWith(line, <<"#", "#", " ">>)
    THEN Cell("B", 14, 8, Strip(SubSeq(line, 4, Len(line)), Whitespace))
    ELSE IF StartsWith(line, <<"#", "#", "#", " ">>)
    THEN Cell("B", 12, 8, Strip(SubSeq(line, 5, Len(line)), Whitespace))
    ELSE MultiCell("", 12, 6, Strip(line, Whitespace))

\* the body of the loop over safe_content.splitlines(), lines 39-57
LineBlock(line) ==
    LET text == Strip(line, Whitespace)
    IN  IF text = <<>> THEN Ln(2)
        ELSE IF StartsWith(text, <<"#", " ">>)
        THEN Cell("B", 16, 10, Strip(SubSeq(text, 3, Len(text)), Whitespace))
        ELSE IF StartsWith(text, <<"#", "#", " ">>)
        THEN Cell("B", 14, 8, Strip(SubSeq(text, 4, Len(text)), Whitespace))
        ELSE IF StartsWith(text, <<"#", "#", "#", " ">>)
        THEN Cell("B", 12, 8, Strip(SubSeq(text, 5, Len(text)), Whitespace))
        ELSE MultiCell("", 12, 6, text)

\* create_pdf: the calls made on the FPDF object
CreatePdf(t, c) ==
    LET safe_title == Latin1(t)
        safe_content == Latin1(c)
        lines == SplitLines(safe_content)
    IN  <<Cell("B", 18, 10, safe_title), Ln(4)>>
        \o [i \in 1..Len(lines) |-> LineBlock(lines[i])]

----------------------------------------------------------------------------
(* Inputs of the session model *)

\* the form's eight text inputs (lines 88-98)
Forms ==
    { [ingredients |-> <<"r", "i", "c", "e">>, meal_type |-> <<>>,
       dietary_needs |-> <<>>, prep_time |-> <<"2", "0">>,
       portion_size |-> <<"2">>, tools |-> <<>>,
       nutritional_breakdown |-> <<"n", "o">>,
       additional_preferences |-> <<>>],
      [ingredients |-> <<>>, meal_type |-> <<>>,
       dietary_needs |-> <<>>, prep_time |-> <<>>,
       portion_size |-> <<>>, tools |-> <<>>,
       nutritional_breakdown |-> <<>>,
       additional_preferences |-> <<>>] }

\* texts the remote model may answer with; the empty text is a legal
\* value of choices[0].message.content
Replies ==
    { <<"#", " ", "A", "\n", "x">>,
      <<"\n", "#", "#", " ", "B", " ", "#">>,
      <<>> }

\* what requests.post / raise_for_status / resp.json()[...] can produce:
\* a text, or an exception
RemoteOutcomes ==
    {[ok |-> TRUE, text |-> r] : r \in Replies} \cup {[ok |-> FALSE, text |-> <<>>]}

\* values of the "Which ingredient ..." text input
Ingredients == { <<>>, <<"e", "g", "g">> }

----------------------------------------------------------------------------
(* Prompt and request texts *)

UserPrompt(f) ==
    <<"You are a helpful and knowledgeable meal planning assistant ...\n",
      "You will generate a tailored recipe ...\n",
      "Ingredients that user currently has: ">> \o f.ingredients \o
    <<"\nThe kind of meal the user wants to cook: ">> \o f.meal_type \o
    <<"\nDietary Needs: ">> \o f.dietary_needs \o
    <<"\nPreparation Time Preference: ">> \o f.prep_time \o
    <<" minutes\nIf the user answers 'yes' for this question, ...: ">>
      \o f.nutritional_breakdown \o
    <<"\nPortion size the user wants to cook: ">> \o f.portion_size \o
    <<"\nTools the user does not have available: ">> \o f.tools \o
    <<"\nAdditional Preferences of the user: ">> \o f.additional_preferences \o
    <<"\nWhen listing ingredients, ... At the end, add a friendly sign-off ...">>

SubstituteRequest(ingredient) ==
    <<"I would like to substitute '">> \o ingredient \o
    <<"'. Can you suggest 2-3 alternatives and explain why?">>

RegenerateRequest ==
    <<"I didn't like the previous recipe. Please generate a new one.">>

User(text) == [role |-> "user", content |-> text]
Assistant(text) == [role |-> "assistant", content |-> text]

----------------------------------------------------------------------------
(* Chat client: get_meal_suggestions under st.cache_data *)

\* variant: the key looks at the last turn only
CacheKeyLastTurn(msgs) == msgs[Len(msgs)]

\* the cache key is the value of the argument
CacheKey(msgs) == msgs

Cached(msgs) == \E e \in cache : e.key = CacheKey(msgs)

CachedText(msgs) == (CHOOSE e \in cache : e.key = CacheKey(msgs)).text

\* one call of the decorated function; remote is what the endpoint would do
\* if it were invoked.  posted: requests.post ran.  ok = FALSE: it raised.
GetMealSuggestions(msgs, remote) ==
    IF Cached(msgs)
    THEN [ok |-> TRUE, text |-> CachedText(msgs), posted |-> FALSE]
    ELSE [ok |-> remote.ok, text |-> remote.text, posted |-> TRUE]

\* the store after the call: a returned value is stored, an exception is not
CacheAfter(msgs, res) ==
    IF res.posted /\ res.ok
    THEN cache \cup {[key |-> CacheKey(msgs), text |-> res.text]}
    ELSE cache

\* variant: a call that raised is made once more
CallWithRetry(op, msgs, res) ==
    /\ calls' = calls + (IF res.ok THEN 1 ELSE 2)
    /\ cache' = CacheAfter(msgs, res)
    /\ remoteCalls' = remoteCalls + (IF ~res.posted THEN 0 ELSE IF res.ok THEN 1 ELSE 2)
    /\ callLog' = IF res.ok THEN callLog \cup {[conv |-> msgs, text |-> res.text]}
                  ELSE callLog
    /\ run' = [op |-> op, called |-> TRUE, posted |-> res.posted,
               ok |-> res.ok, conv |-> msgs, text |-> res.text]

\* bookkeeping shared by every run that calls the chat client
Call(op, msgs, res) ==
    /\ calls' = calls + 1
    /\ cache' = CacheAfter(msgs, res)
    /\ remoteCalls' = remoteCalls + (IF res.posted THEN 1 ELSE 0)
    /\ callLog' = IF res.ok THEN callLog \cup {[conv |-> msgs, text |-> res.text]}
                  ELSE callLog
    /\ run' = [op |-> op, called |-> TRUE, posted |-> res.posted,
               ok |-> res.ok, conv |-> msgs, text |-> res.text]

NoCall(op, ok) ==
    /\ UNCHANGED <<cache, remoteCalls, callLog, calls>>
    /\ run' = [op |-> op, called |-> FALSE, posted |-> FALSE,
               ok |-> ok, conv |-> <<>>, text |-> <<>>]

----------------------------------------------------------------------------
(* Session state and the handlers *)

InitSession ==
    /\ messages = <<>>
    /\ latest_recipe = <<>>
    /\ latest_prompt = <<>>
    /\ history = <<>>
    /\ saved = <<>>
    /\ cache = {}
    /\ remoteCalls = 0
    /\ runs = 0
    /\ run = [op |-> "none", called |-> FALSE, posted |-> FALSE,
              ok |-> TRUE, conv |-> <<>>, text |-> <<>>]
    /\ callLog = {}
    /\ genLog = <<>>
    /\ calls = 0
    /\ ingredient_to_sub = <<>>

IdleHarness ==
    /\ phase = "idle"
    /\ content = <<>>
    /\ title = <<>>
    /\ titleOut = <<>>
    /\ pdf = <<>>
    /\ safe = <<>>

Init == InitSession /\ IdleHarness

\* `if st.session_state.latest_recipe:` -- the buttons exist only then
HasRecipe == latest_recipe # <<>>

\* variant: the new turns are added to the stored conversation
NewConversationAppended(user_prompt, response) ==
    messages \o <<User(user_prompt), Assistant(response)>>

\* lines 146-149
NewConversation(user_prompt, response) ==
    <<User(user_prompt), Assistant(response)>>

\* variant: a title already listed is not listed again
HistoryAppendNew(h, t) ==
    IF \E i \in 1..Len(h) : h[i] = t THEN h ELSE Append(h, t)

\* history.append(...), lines 150 and 201
HistoryAppend(h, t) == Append(h, t)

\* variant: the prompt is sent after the stored conversation
GenerateExtendsConversation(form, remote) ==
    /\ runs < MaxRuns
    /\ runs' = runs + 1
    /\ LET user_prompt == UserPrompt(form)
           msgs == Append(messages, User(user_prompt))
           res == GetMealSuggestions(msgs, remote)
       IN  /\ Call("Generate", msgs, res)
           /\ IF res.ok
              THEN /\ latest_recipe' = res.text
                   /\ latest_prompt' = user_prompt
                   /\ messages' = NewConversation(user_prompt, res.text)
                   /\ history' = HistoryAppend(history, ExtractTitle(res.text))
                   /\ genLog' = Append(genLog, res.text)
                   /\ UNCHANGED saved
              ELSE UNCHANGED <<session, genLog>>
    /\ UNCHANGED <<ingredient_to_sub, harness>>

\* "Get Meal Suggestion" submitted.  No try/except: an exception of the call
\* ends the run before any session_state assignment.
Generate(form, remote) ==
    /\ runs < MaxRuns
    /\ runs' = runs + 1
    /\ LET user_prompt == UserPrompt(form)
           msgs == <<User(user_prompt)>>
           res == GetMealSuggestions(msgs, remote)
       IN  /\ Call("Generate", msgs, res)
           /\ IF res.ok
              THEN /\ latest_recipe' = res.text
                   /\ latest_prompt' = user_prompt
                   /\ messages' = NewConversation(user_prompt, res.text)
                   /\ history' = HistoryAppend(history, ExtractTitle(res.text))
                   /\ genLog' = Append(genLog, res.text)
                   /\ UNCHANGED saved
              ELSE UNCHANGED <<session, genLog>>
    /\ UNCHANGED <<ingredient_to_sub, harness>>

\* variant: the substitution reply is stored as the latest recipe
SubstituteStoresReply(ingredient, remote) ==
    /\ runs < MaxRuns
    /\ HasRecipe
    /\ runs' = runs + 1
    /\ ingredient_to_sub' = ingredient
    /\ IF ingredient = <<>>
       THEN /\ NoCall("Substitute", TRUE)
            /\ UNCHANGED session
       ELSE LET msgs == Append(messages, User(SubstituteRequest(ingredient)))
                res == GetMealSuggestions(msgs, remote)
            IN  /\ Call("Substitute", msgs, res)
                /\ messages' = IF res.ok THEN Append(msgs, Assistant(res.text))
                               ELSE msgs
                /\ latest_recipe' = IF res.ok THEN res.text ELSE latest_recipe
                /\ UNCHANGED <<latest_prompt, history, saved>>
    /\ UNCHANGED <<genLog, harness>>

\* variant: only the new user turn is sent to the chat client
SubstituteSendsLastTurn(ingredient, remote) ==
    /\ runs < MaxRuns
    /\ HasRecipe
    /\ runs' = runs + 1
    /\ ingredient_to_sub' = ingredient
    /\ IF ingredient = <<>>
       THEN /\ NoCall("Substitute", TRUE)
            /\ UNCHANGED session
       ELSE LET msgs == Append(messages, User(SubstituteRequest(ingredient)))
                res == GetMealSuggestions(<<User(SubstituteRequest(ingredient))>>, remote)
            IN  /\ Call("Substitute", <<User(SubstituteRequest(ingredient))>>, res)
                /\ messages' = IF res.ok THEN Append(msgs, Assistant(res.text))
                               ELSE msgs
                /\ UNCHANGED <<latest_recipe, latest_prompt, history, saved>>
    /\ UNCHANGED <<genLog, harness>>

\* variant: the button alone decides, the text input is not tested
SubstituteUnguarded(ingredient, remote) ==
    /\ runs < MaxRuns
    /\ HasRecipe
    /\ runs' = runs + 1
    /\ ingredient_to_sub' = ingredient
    /\ LET msgs == Append(messages, User(SubstituteRequest(ingredient)))
           res == GetMealSuggestions(msgs, remote)
       IN  /\ Call("Substitute", msgs, res)
           /\ messages' = IF res.ok THEN Append(msgs, Assistant(res.text))
                          ELSE msgs
           /\ UNCHANGED <<latest_recipe, latest_prompt, history, saved>>
    /\ UNCHANGED <<genLog, harness>>

\* "Suggest Alternatives" clicked with the checkbox ticked and `ingredient`
\* in the text input
Substitute(ingredient, remote) ==
    /\ runs < MaxRuns
    /\ HasRecipe
    /\ runs' = runs + 1
    /\ ingredient_to_sub' = ingredient
    /\ IF ingredient = <<>>
       THEN /\ NoCall("Substitute", TRUE)
            /\ UNCHANGED session
       ELSE LET msgs == Append(messages, User(SubstituteRequest(ingredient)))
                res == GetMealSuggestions(msgs, remote)
            IN  /\ Call("Substitute", msgs, res)
                /\ messages' = IF res.ok THEN Append(msgs, Assistant(res.text))
                               ELSE msgs
                /\ UNCHANGED <<latest_recipe, latest_prompt, history, saved>>
    /\ UNCHANGED <<genLog, harness>>

\* the module-level name `title` in a run without a submit: bound by the
\* sidebar loop `for i, title in enumerate(reversed(history))`, whose last
\* item is history[0]
SidebarTitle == history[1]

\* variant: a record already saved is not saved again
SavedAppendNew(s, rec) ==
    IF \E i \in 1..Len(s) : s[i] = rec THEN s ELSE Append(s, rec)

\* saved.append({...}), line 179
SavedAppend(s, rec) == Append(s, rec)

\* "Save this recipe" clicked
Save ==
    /\ runs < MaxRuns
    /\ HasRecipe
    /\ runs' = runs + 1
    /\ IF history # <<>>
       THEN /\ saved' = SavedAppend(saved, [title |-> SidebarTitle,
                                            content |-> latest_recipe])
            /\ NoCall("Save", TRUE)
       ELSE /\ UNCHANGED saved     \* NameError: title is unbound
            /\ NoCall("Save", FALSE)
    /\ UNCHANGED <<messages, latest_recipe, latest_prompt, history, genLog,
                   ingredient_to_sub, harness>>

\* variant: the original prompt alone is sent again
RegenerateResendsPrompt(remote) ==
    /\ runs < MaxRuns
    /\ HasRecipe
    /\ runs' = runs + 1
    /\ LET msgs == Append(messages, User(RegenerateRequest))
           res == GetMealSuggestions(<<User(latest_prompt)>>, remote)
       IN  /\ Call("Regenerate", <<User(latest_prompt)>>, res)
           /\ IF res.ok
              THEN /\ messages' = Append(msgs, Assistant(res.text))
                   /\ latest_recipe' = res.text
                   /\ history' = HistoryAppend(history, ExtractTitle(res.text))
                   /\ genLog' = Append(genLog, res.text)
              ELSE /\ messages' = msgs
                   /\ UNCHANGED <<latest_recipe, history, genLog>>
           /\ UNCHANGED <<latest_prompt, saved>>
    /\ UNCHANGED <<ingredient_to_sub, harness>>

\* variant: the new reply is appended but not stored as the latest recipe
RegenerateKeepsRecipe(remote) ==
    /\ runs < MaxRuns
    /\ HasRecipe
    /\ runs' = runs + 1
    /\ LET msgs == Append(messages, User(RegenerateRequest))
           res == GetMealSuggestions(msgs, remote)
       IN  /\ Call("Regenerate", msgs, res)
           /\ IF res.ok
              THEN /\ messages' = Append(msgs, Assistant(res.text))
                   /\ history' = HistoryAppend(history, ExtractTitle(res.text))
                   /\ genLog' = Append(genLog, res.text)
                   /\ UNCHANGED latest_recipe
              ELSE /\ messages' = msgs
                   /\ UNCHANGED <<latest_recipe, history, genLog>>
           /\ UNCHANGED <<latest_prompt, saved>>
    /\ UNCHANGED <<ingredient_to_sub, harness>>

\* "Regenerate Recipe" clicked
Regenerate(remote) ==
    /\ runs < MaxRuns
    /\ HasRecipe
    /\ runs' = runs + 1
    /\ LET msgs == Append(messages, User(RegenerateRequest))
           res == GetMealSuggestions(msgs, remote)
       IN  /\ Call("Regenerate", msgs, res)
           /\ IF res.ok
              THEN /\ messages' = Append(msgs, Assistant(res.text))
                   /\ latest_recipe' = res.text
                   /\ history' = HistoryAppend(history, ExtractTitle(res.text))
                   /\ genLog' = Append(genLog, res.text)
              ELSE /\ messages' = msgs
                   /\ UNCHANGED <<latest_recipe, history, genLog>>
           /\ UNCHANGED <<latest_prompt, saved>>
    /\ UNCHANGED <<ingredient_to_sub, harness>>

Next ==
    \/ \E form \in Forms, remote \in RemoteOutcomes : Generate(form, remote)
    \/ \E ingredient \in Ingredients, remote \in RemoteOutcomes :
          Substitute(ingredient, remote)
    \/ Save
    \/ \E remote \in RemoteOutcomes : Regenerate(remote)

Spec == Init /\ [][Next]_vars

----------------------------------------------------------------------------
(* Harness for the pure functions: a text is drawn, the function applied *)

TextsUpTo(alphabet, n) == UNION {[1..k -> alphabet] : k \in 0..n}

TitleAlphabet == {"#", " ", "\t", "\n", "a"}

TitleInit ==
    /\ InitSession
    /\ phase = "reply"
    /\ content \in TextsUpTo(TitleAlphabet, MaxLen)
    /\ title = <<>>
    /\ titleOut = <<>>
    /\ pdf = <<>>
    /\ safe = <<>>

\* the title extraction of Generate (lines 139-142) and of Regenerate
\* (lines 197-200) applied to a reply
DeriveTitle ==
    /\ phase = "reply"
    /\ phase' = "titled"
    /\ titleOut' = ExtractTitle(content)
    /\ UNCHANGED <<session, cache, remoteCalls, runs, run, callLog, genLog,
                   calls, ingredient_to_sub, content, title, pdf, safe>>

TitleSpec == TitleInit /\ [][DeriveTitle]_vars

PdfAlphabet == {"#", " ", "\n", "a", Euro}

PdfTitles == { <<"a">>, <<Euro, "a", " ">> }

PdfInit ==
    /\ InitSession
    /\ phase = "record"
    /\ content \in TextsUpTo(PdfAlphabet, MaxContent)
    /\ title \in PdfTitles
    /\ titleOut = <<>>
    /\ pdf = <<>>
    /\ safe = <<>>

\* create_pdf(rec["title"], rec["content"]), line 213
RenderPdf ==
    /\ phase = "record"
    /\ phase' = "rendered"
    /\ pdf' = CreatePdf(title, content)
    /\ UNCHANGED <<session, cache, remoteCalls, runs, run, callLog, genLog,
                   calls, ingredient_to_sub, content, title, titleOut, safe>>

PdfSpec == PdfInit /\ [][RenderPdf]_vars

TranslitInit ==
    /\ InitSession
    /\ phase = "text"
    /\ content \in TextsUpTo(PdfAlphabet, MaxContent)
    /\ title = <<>>
    /\ titleOut = <<>>
    /\ pdf = <<>>
    /\ safe = <<>>

\* the transliteration of create_pdf (lines 29-30) applied to a text
Transliterate ==
    /\ phase = "text"
    /\ phase' = "safe"
    /\ safe' = Latin1(content)
    /\ UNCHANGED <<session, cache, remoteCalls, runs, run, callLog, genLog,
                   calls, ingredient_to_sub, content, title, titleOut, pdf>>

\* the transliteration applied to a text that went through it already (a
\* saved record is rendered again in every run of the script)
TransliterateAgain ==
    /\ phase = "safe"
    /\ phase' = "safe again"
    /\ safe' = Latin1(safe)
    /\ UNCHANGED <<session, cache, remoteCalls, runs, run, callLog, genLog,
                   calls, ingredient_to_sub, content, title, titleOut, pdf>>

TranslitSpec == TranslitInit /\ [][Transliterate \/ TransliterateAgain]_vars

----------------------------------------------------------------------------
(* Properties of the session *)

\* a step of the last run's kind
Ran(op) == runs' # runs /\ run'.op = op

\* C1 (as stated): a Generate, Substitute or Regenerate whose chat client
\* call fails leaves the whole session bundle {conversation,
\* latestRecipeText, latestPrompt, history, saved} as it was before.
C1_FailedCallKeepsSession ==
    [][(runs' # runs /\ run'.called /\ ~run'.ok) => session' = session]_vars

\* C2 (as stated): every saved record's title is the title derived from the
\* record's own content.
C2_SavedTitleMatchesContent ==
    \A i \in 1..Len(saved) : saved[i].title = ExtractTitle(saved[i].content)

\* C3: a non-empty conversation starts with the user turn holding
\* latestPrompt, and a Substitute or Regenerate run only appends turns: the
\* conversation before is a prefix of the conversation after.
C3_FirstTurnAndAppendOnly ==
    /\ [](messages # <<>> => messages[1] = User(latest_prompt))
    /\ [][(Ran("Substitute") \/ Ran("Regenerate"))
            => IsPrefix(messages, messages')]_vars

\* C3's case: a conversation that both a Substitute and a Regenerate extended
C3_Witness ==
    /\ Len(messages) >= 6
    /\ messages[3] = User(SubstituteRequest(<<"e", "g", "g">>))
    /\ messages[5] = User(RegenerateRequest)
    /\ latest_prompt # <<>>

\* C4: a call with a conversation some earlier call answered returns that
\* same text and makes no remote invocation; a call with a conversation no
\* earlier call answered is not served from the cache (it invokes the
\* remote endpoint).
C4_CacheExactConversation ==
    [][(runs' # runs /\ run'.called) =>
         IF \E e \in callLog : e.conv = run'.conv
         THEN /\ run'.ok
              /\ \A e \in callLog : e.conv = run'.conv => e.text = run'.text
              /\ remoteCalls' = remoteCalls
         ELSE /\ run'.posted
              /\ remoteCalls' = remoteCalls + 1]_vars

\* C4's case: a call answered from the cache, after other conversations
\* were answered remotely
C4_Witness ==
    /\ run.called /\ run.ok /\ ~run.posted
    /\ Len(run.conv) = 3
    /\ Cardinality(callLog) >= 2

\* C5: history has one entry per successful Generate/Regenerate call, the
\* i-th being the title derived from the i-th such reply, and no run
\* removes, reorders or rewrites an entry.
C5_HistoryPerSuccessfulCall ==
    /\ [](/\ Len(history) = Len(genLog)
          /\ \A i \in 1..Len(genLog) : history[i] = ExtractTitle(genLog[i]))
    /\ [][IsPrefix(history, history')]_vars

\* C5's case: three entries, one of them from a call answered by the cache,
\* then a failed call
C5_Witness ==
    /\ Len(history) = 3
    /\ remoteCalls = 3
    /\ run.called /\ ~run.ok

\* C6: a Substitute run, whether its call succeeds or fails, leaves
\* latestRecipeText, history and saved as they were.
C6_SubstituteFrame ==
    [][Ran("Substitute") =>
         UNCHANGED <<latest_recipe, history, saved>>]_vars

\* C6's case: a Substitute whose call succeeded, with something saved
C6_Witness ==
    /\ run.op = "Substitute" /\ run.called /\ run.ok
    /\ saved # <<>>
    /\ Len(messages) = 4

\* C7: a Save run appends exactly one record to the end of saved, also when
\* an equal record is already there, and changes nothing else of the
\* bundle; across all runs saved only grows at its end.
C7_SaveAppendsOne ==
    [][/\ Ran("Save") =>
            /\ Len(saved') = Len(saved) + 1
            /\ SubSeq(saved', 1, Len(saved)) = saved
            /\ saved'[Len(saved')].content = latest_recipe
            /\ UNCHANGED <<messages, latest_recipe, latest_prompt, history>>
       /\ IsPrefix(saved, saved')]_vars

\* C7's case: the same record saved twice
C7_Witness ==
    /\ run.op = "Save"
    /\ Len(saved) >= 2
    /\ saved[1] = saved[2]

\* C8 (as stated): a successful Generate puts the session in HasRecipe, and
\* no run takes a session in HasRecipe out of it.
C8_HasRecipeIsStable ==
    [][/\ (Ran("Generate") /\ run'.ok) => HasRecipe'
       /\ HasRecipe => HasRecipe']_vars

----------------------------------------------------------------------------
(* Properties of the title extraction *)

Min(S) == CHOOSE x \in S : \A y \in S : x <= y
Max(S) == CHOOSE x \in S : \A y \in S : x >= y

\* indices of the lines of text that hold a non-whitespace character
NonBlankLines(text) ==
    LET lines == SplitLines(text)
    IN  {k \in 1..Len(lines) : \E j \in 1..Len(lines[k]) : lines[k][j] \notin Whitespace}

FirstNonBlankLine(text) == SplitLines(text)[Min(NonBlankLines(text))]

\* the line with its surrounding whitespace and then only its leading '#'
\* removed, and the whitespace that this uncovers
LeadingHashesRemoved(line) ==
    Strip(LStrip(Strip(line, Whitespace), {"#"}), Whitespace)

----------------------------------------------------------------------------
(* Properties of the PDF creation *)

Kind(block) ==
    IF block.op = "ln" THEN "gap"
    ELSE IF block.op = "multi_cell" THEN "body"
    ELSE IF block.size = 18 THEN "title"
    ELSE IF block.size = 16 THEN "h1"
    ELSE IF block.size = 14 THEN "h2"
    ELSE "h3"

\* number of '#' a line starts with
LeadingHashes(line) == Len(line) - Len(LStrip(line, {"#"}))

\* one to three '#' and then a space
IsHeading(line) ==
    /\ LeadingHashes(line) \in 1..3
    /\ Len(line) > LeadingHashes(line)
    /\ line[LeadingHashes(line) + 1] = " "

HeadingText(line) ==
    Strip(SubSeq(line, LeadingHashes(line) + 2, Len(line)), Whitespace)

HeadingKind(line) == <<"h1", "h2", "h3">>[LeadingHashes(line)]

\* the block a line gives when the line is classified as `seen`
BlockIs(block, seen) ==
    IF \A j \in 1..Len(seen) : seen[j] \in Whitespace
    THEN Kind(block) = "gap"
    ELSE IF IsHeading(seen)
    THEN Kind(block) = HeadingKind(seen) /\ block.text = HeadingText(seen)
    ELSE Kind(block) = "body"

TitleHeaderFirst ==
    /\ Len(pdf) >= 2
    /\ Kind(pdf[1]) = "title"
    /\ pdf[1].text = Latin1(title)
    /\ Kind(pdf[2]) = "gap"

\* C10 (as stated): after the title header there is exactly one block per
\* line, in line order, the line being classified as it stands: a line with
\* whitespace before its marker gives a body paragraph.
C10_BlockPerLineAsWritten ==
    phase = "rendered" =>
        LET lines == SplitLines(Latin1(content))
        IN  /\ TitleHeaderFirst
            /\ Len(pdf) = Len(lines) + 2
            /\ \A i \in 1..Len(lines) : BlockIs(pdf[i + 2], lines[i])

\* C10 (amended): after the title header there is exactly one block per
\* line of the transliterated content, in line order, the line being
\* classified after its surrounding whitespace is stripped: empty gives a
\* gap; '# ', '## ', '### ' give a heading of level 1, 2, 3 with the rest
\* stripped as text; any other line gives a body paragraph holding the
\* stripped line.
C10_BlockPerStrippedLine ==
    phase = "rendered" =>
        LET lines == SplitLines(Latin1(content))
        IN  /\ TitleHeaderFirst
            /\ Len(pdf) = Len(lines) + 2
            /\ \A i \in 1..Len(lines) :
                  LET text == Strip(lines[i], Whitespace)
                  IN  /\ BlockIs(pdf[i + 2], text)
                      /\ Kind(pdf[i + 2]) = "body" => pdf[i + 2].text = text

\* C10's case: a marker preceded by whitespace, then a '#' with no space
C10_Witness ==
    /\ phase = "rendered"
    /\ content = <<" ", "#", " ", "a", "\n", "#">>
    /\ Len(pdf) = 4
    /\ Kind(pdf[3]) = "h1" /\ pdf[3].text = <<"a">>
    /\ Kind(pdf[4]) = "body"

----------------------------------------------------------------------------
(* Properties of the transliteration *)

\* positions of text holding a character latin-1 can encode
KeptPositions(text) == {i \in 1..Len(text) : text[i] \notin NotLatin1}

\* the k-th smallest element of a set of positions
Nth(S, k) == CHOOSE i \in S : Cardinality({j \in S : j <= i}) = k

\* C11: the transliteration removes exactly the characters outside the
\* representable set and keeps every other character, in the original
\* order; applied to its own output it changes nothing.
C11_TranslitDeletesOnly ==
    phase \in {"safe", "safe again"} =>
        /\ Len(safe) = Cardinality(KeptPositions(content))
        /\ \A k \in 1..Len(safe) : safe[k] = content[Nth(KeptPositions(content), k)]

\* C11's case: a text with unrepresentable characters between kept ones,
\* transliterated twice
C11_Witness ==
    /\ phase = "safe again"
    /\ content = <<"a", Euro, "#", Euro, " ", "a">>
    /\ safe = <<"a", "#", " ", "a">>

----------------------------------------------------------------------------
(* Properties of the handlers *)

C13_GenerateStartsOver ==
    [][(Ran("Generate") /\ run'.ok) =>
         \E form \in Forms :
            LET prompt == UserPrompt(form)
            IN  /\ run'.conv = <<User(prompt)>>
                /\ messages' = <<User(prompt), Assistant(run'.text)>>
                /\ latest_prompt' = prompt
                /\ latest_recipe' = run'.text
                /\ history' = Append(history, ExtractTitle(run'.text))
                /\ saved' = saved]_vars

\* C13's case: a successful Generate in a session that had a longer
\* conversation and a saved record
C13_Witness ==
    /\ run.op = "Generate" /\ run.ok
    /\ runs = 4 /\ calls = 3
    /\ Len(messages) = 2
    /\ Len(history) = 2
    /\ saved # <<>>

\* C14: a successful Regenerate calls the chat client with the whole prior
\* conversation followed by the fixed regeneration user turn; afterwards the
\* conversation is the prior one plus that turn and the reply,
\* latestRecipeText is the reply, history has the derived title appended,
\* latestPrompt and saved are unchanged.
C14_RegenerateExtends ==
    [][(Ran("Regenerate") /\ run'.ok) =>
         /\ run'.conv = messages \o <<User(RegenerateRequest)>>
         /\ messages' = messages \o <<User(RegenerateRequest), Assistant(run'.text)>>
         /\ latest_recipe' = run'.text
         /\ history' = Append(history, ExtractTitle(run'.text))
         /\ latest_prompt' = latest_prompt
         /\ saved' = saved]_vars

\* C14's case: a successful Regenerate after a substitution and a Save
C14_Witness ==
    /\ run.op = "Regenerate" /\ run.ok
    /\ Len(messages) = 6
    /\ Len(history) = 2
    /\ saved # <<>>
    /\ latest_recipe = run.text

\* C15: a successful Substitute for a named ingredient calls the chat client
\* with the whole prior conversation followed by one user turn that names
\* the ingredient; afterwards the conversation is the prior one plus that
\* turn and the reply, and latestPrompt is unchanged.
C15_SubstituteExtends ==
    [][(Ran("Substitute") /\ run'.called /\ run'.ok) =>
         /\ ingredient_to_sub' # <<>>
         /\ run'.conv # <<>>
         /\ LET turn == run'.conv[Len(run'.conv)]
            IN  /\ run'.conv = Append(messages, turn)
                /\ turn.role = "user"
                /\ Len(turn.content) = Len(ingredient_to_sub') + 2
                /\ SubSeq(turn.content, 2, Len(turn.content) - 1) = ingredient_to_sub'
                /\ messages' = messages \o <<turn, Assistant(run'.text)>>
         /\ latest_prompt' = latest_prompt]_vars

\* C15's case: a second successful Substitute, on a four-turn conversation
C15_Witness ==
    /\ run.op = "Substitute" /\ run.called /\ run.ok
    /\ ingredient_to_sub = <<"e", "g", "g">>
    /\ Len(run.conv) = 5
    /\ Len(messages) = 6

\* C16: a Substitute click with an empty ingredient makes no chat client
\* call and leaves conversation, latestRecipeText, latestPrompt, history and
\* saved unchanged.
C16_EmptyIngredientNoCall ==
    [][(Ran("Substitute") /\ ingredient_to_sub' = <<>>) =>
         /\ ~run'.called
         /\ calls' = calls
         /\ remoteCalls' = remoteCalls
         /\ session' = session]_vars

\* C16's case: an empty-ingredient click after a real substitution
C16_Witness ==
    /\ run.op = "Substitute" /\ ~run.called
    /\ ingredient_to_sub = <<>>
    /\ Len(messages) = 4
    /\ calls = 2

----------------------------------------------------------------------------
(* Properties of the conversation and of the latest recipe *)

\* non-empty, user and assistant turns only, user first and last, and no
\* two turns in a row with the same role
Alternates(conv) ==
    /\ conv # <<>>
    /\ \A i \in 1..Len(conv) : conv[i].role \in {"user", "assistant"}
    /\ conv[1].role = "user"
    /\ conv[Len(conv)].role = "user"
    /\ \A i \in 1..(Len(conv) - 1) : conv[i].role # conv[i + 1].role

\* C17 (as stated): every conversation passed to the chat client is
\* non-empty, starts and ends with a user turn and strictly alternates
\* user/assistant; between runs a non-empty stored conversation ends with an
\* assistant turn.
C17_ConversationsAlternate ==
    /\ run.called => Alternates(run.conv)
    /\ messages # <<>> => messages[Len(messages)].role = "assistant"

\* positions of the assistant turns that answer a Generate or a Regenerate
\* request
RecipeTurns ==
    {i \in 2..Len(messages) :
        /\ messages[i].role = "assistant"
        /\ i = 2 \/ messages[i - 1] = User(RegenerateRequest)}

\* C18: when history is non-empty its last entry is the title derived from
\* latestRecipeText, and latestRecipeText is the content of the assistant
\* turn that answers the most recent successful Generate or Regenerate
\* request of the conversation.
C18_LatestRecipeIsLastAnswer ==
    history # <<>> =>
        /\ history[Len(history)] = ExtractTitle(latest_recipe)
        /\ RecipeTurns # {}
        /\ messages[Max(RecipeTurns)].content = latest_recipe

\* C18's case: a regenerated recipe, different from the first, followed by
\* a substitution reply
C18_Witness ==
    /\ run.op = "Substitute" /\ run.called /\ run.ok
    /\ Len(messages) = 6
    /\ Len(history) = 2
    /\ history[1] # history[2]
    /\ latest_recipe = messages[4].content
    /\ latest_recipe # messages[6].content

\* C19 (as stated): every title derived for history is a non-empty text,
\* also when the first non-blank line holds only '#' characters and spaces.
C19_TitleNeverEmpty ==
    phase = "titled" => titleOut # <<>>

====
